---- MODULE Spec2Model ----
(***************************************************************************)
(* Workflow graph execution engine of the SMB automation platform:         *)
(* backend/apps/workflows/services.py (WorkflowExecutionService,           *)
(* WorkflowAuditService), models.py (the ledger rows) and admin.py.        *)
(*                                                                         *)
(* The ledger rows are modelled as the database sees them; `mem` is the    *)
(* Python object `execution` the caller of start_execution holds, whose    *)
(* save() writes every field of the object over the row.                   *)
(***************************************************************************)
EXTENDS Integers, Sequences, FiniteSets, TLC

\* ---------------------------------------------------------------- bounds
MaxEdges == 4
MaxAdminEdits == 1

Node == 1..4
ExecIds == {1}

\* The executions of the scenarios in which two requests are served at once.
AllExecIds == 1..2

\* ------------------------------------------------------ program constants
Null == 0

NODE_TYPES == {"start", "end", "process", "approval"}

CONDITION_TYPES ==
    {"always", "success", "failure", "conditional", "approval_yes", "approval_no"}

EXECUTION_STATUS ==
    {"queued", "running", "paused", "completed", "failed", "cancelled"}

NODE_EXECUTION_STATUS ==
    {"pending", "running", "completed", "failed", "skipped", "waiting_approval"}

\* NodeType.requires_user_action of the catalogue's node types
RequiresUserAction(type) == type = "approval"

VARIABLES
    nodes,      \* WorkflowNode rows of the workflow (their ids)
    nodeType,   \* WorkflowNode.node_type.type of every node
    edges,      \* WorkflowEdge rows: [source, target, condition_type]
    wf,         \* Workflow row: the aggregate counters
    exe,        \* WorkflowExecution rows, by execution id
    nodeExecs,  \* WorkflowNodeExecution rows, by execution id and node
    audit,      \* WorkflowAuditLog rows, oldest first
    mem,        \* the caller's in-memory WorkflowExecution object
    pc,         \* position of the thread running start_execution
    stack,      \* pending `for next_node in next_nodes` loops, innermost last
    cur,        \* node whose _execute_node call is past get_or_create
    starts,     \* number of start_execution calls made on the execution
    runs,       \* number of step runner invocations, by execution and node
    adminEdits, \* number of admin edits made
    now,        \* timezone.now()
    wfStatus,   \* Workflow.status, "deleted" once the row is gone
    response,   \* the last response of a workflow view: view, status, error
    txn,        \* rows as committed, while create_execution's transaction is open
    stats,      \* the counts _update_workflow_stats has read and not yet saved
    wfObj,      \* status of the Workflow object each execution's thread holds
    cancels     \* number of cancel_execution calls that changed nothing

vars == << nodes, nodeType, edges, wf, exe, nodeExecs, audit, mem, pc, stack,
           cur, starts, runs, adminEdits, now, wfStatus, response, txn,
           stats, wfObj, cancels >>

graphVars == << nodes, nodeType, edges >>
threadVars == << pc, stack, cur, starts >>
apiVars == << wfStatus, response, txn >>
localVars == << stats, wfObj, cancels >>

\* ------------------------------------------------------------ the graphs
\* Condition types an edge out of a node of the given type is drawn from.
CondsOf(type) ==
    IF type = "approval" THEN {"approval_yes", "approval_no"}
    ELSE {"always", "success", "failure"}

CandEdges(ns, types) ==
    { [source |-> i, target |-> j, condition_type |-> c] :
        i \in ns, j \in ns, c \in CONDITION_TYPES }

GraphEdges(ns, types) ==
    { ed \in CandEdges(ns, types) :
        /\ ed.source < ed.target
        /\ ed.condition_type \in CondsOf(types[ed.source]) }

\* Node 1 is the start node (or a process node: a workflow without start
\* node), the last node is the end node, node 2 may be an approval node.
TypeChoices(ns) ==
    { t \in [Node -> NODE_TYPES] :
        LET last == Cardinality(ns) IN
        /\ t[1] \in {"start", "process"}
        /\ \A n \in Node : n > last => t[n] = "process"
        /\ t[last] = "end"
        /\ \A n \in Node : (1 < n /\ n < last) =>
              t[n] \in (IF n = 2 THEN {"process", "approval"} ELSE {"process"}) }


BoundedSubsets(S, k) == { E \in SUBSET S : Cardinality(E) <= k }

\* ------------------------------------------------------------------ rows
\* WorkflowExecution.objects.create(status='queued', ...): models.py defaults
NewExecution(t) ==
    [ status |-> "queued", current_node |-> Null, started_at |-> t,
      completed_at |-> Null, duration_seconds |-> Null, error_message |-> "" ]

\* Mutant of NewNodeExecution: the node executions are seeded as running.
NewNodeExecutionRunning ==
    [ status |-> "running", approved_by |-> Null, error_message |-> "" ]

\* WorkflowNodeExecution.objects.create(status='pending'): models.py defaults
NewNodeExecution ==
    [ status |-> "pending", approved_by |-> Null, error_message |-> "" ]

\* Response({...}, status=...) of a view of WorkflowViewSet
Response(view, status, error) == [ view |-> view, status |-> status, error |-> error ]

NoResponse == Response("none", Null, "")

AuditEntry(action, e) == [ action |-> action, workflow_execution |-> e ]

Created == DOMAIN exe

Min(S) == CHOOSE x \in S : \A y \in S : x <= y

\* Mutant of StartNodes: the type of the node is not asked for.
StartNodesOfAnyType == nodes

\* start_nodes = execution.workflow.nodes.filter(node_type__type='start')
StartNodes == { n \in nodes : nodeType[n] = "start" }

\* ------------------------------------------------------- _get_next_nodes
\* Mutant of ShouldExecute: an edge is followed whatever its condition.
ShouldExecuteAnyOutcome(condition_type, status) == TRUE

\* Mutant of ShouldExecute: the 'success' check compares with a status no
\* node execution ever has.
ShouldExecuteWrongStatus(condition_type, status) ==
    IF condition_type = "always" THEN TRUE
    ELSE IF condition_type = "success" THEN status = "success"
    ELSE IF condition_type = "failure" THEN status = "failed"
    ELSE TRUE

\* The condition check of one edge, given the status of the current node's
\* node execution; every other condition type leaves should_execute True.
ShouldExecute(condition_type, status) ==
    IF condition_type = "always" THEN TRUE
    ELSE IF condition_type = "success" THEN status = "completed"
    ELSE IF condition_type = "failure" THEN status = "failed"
    ELSE TRUE

\* The outgoing edges whose target is appended to next_nodes. The edges are
\* kept rather than the targets: a target reached by two matching edges is
\* appended, and executed, twice.
GetNextNodes(es, rows, n) ==
    { ed \in es : ed.source = n /\ ShouldExecute(ed.condition_type, rows[n].status) }

\* ---------------------------------------------------- _complete_execution
CompleteExecution(obj, final_status, t) ==
    [ obj EXCEPT !.status = final_status,
                 !.completed_at = t,
                 !.duration_seconds = t - obj.started_at,
                 !.current_node = Null ]

CompletionAction(final_status) ==
    IF final_status = "completed" THEN "execution_completed" ELSE "execution_failed"

\* ------------------------------------------------ _update_workflow_stats
\* No counts read: _update_workflow_stats is not between its queries and its
\* save.
NoStats == [ total_executions |-> Null ]

\* Workflow as created: the defaults of models.py, lines 141-149
NewWorkflowStats ==
    [ total_executions |-> 0, successful_executions |-> 0, failed_executions |-> 0,
      average_duration_seconds |-> << 0, 1 >>, last_executed_at |-> Null ]

\* A float that is the quotient of two integers, kept exact as the pair
\* << numerator, denominator >> in lowest terms; 0 is << 0, 1 >>.
RECURSIVE Gcd(_, _)
Gcd(a, b) == IF b = 0 THEN a ELSE Gcd(b, a % b)

Quotient(a, b) == LET g == Gcd(a, b) IN << a \div g, b \div g >>

\* sum(e.duration_seconds for e in completed_executions), over the ids `ids`
RECURSIVE SumDurations(_, _)
SumDurations(rows, ids) ==
    IF ids = {} THEN 0
    ELSE LET e == CHOOSE x \in ids : TRUE
         IN  rows[e].duration_seconds + SumDurations(rows, ids \ {e})

\* Mutant of UpdateWorkflowStats: every execution that has ended counts as
\* successful.
UpdateWorkflowStatsAllEnded(rows, t) ==
    LET completed == { e \in DOMAIN rows : rows[e].status = "completed"
                                           /\ rows[e].duration_seconds # Null }
    IN  [ total_executions |-> Cardinality(DOMAIN rows),
          successful_executions |->
              Cardinality({ e \in DOMAIN rows : rows[e].completed_at # Null }),
          failed_executions |->
              Cardinality({ e \in DOMAIN rows : rows[e].status = "failed" }),
          average_duration_seconds |->
              IF completed # {}
              THEN Quotient(SumDurations(rows, completed), Cardinality(completed))
              ELSE << 0, 1 >>,
          last_executed_at |-> t ]

\* Mutant of UpdateWorkflowStats: the counts are added to the counters the
\* workflow holds.
UpdateWorkflowStatsAdded(rows, t) ==
    LET completed == { e \in DOMAIN rows : rows[e].status = "completed"
                                           /\ rows[e].duration_seconds # Null }
    IN  [ total_executions |-> wf.total_executions + Cardinality(DOMAIN rows),
          successful_executions |-> wf.successful_executions +
              Cardinality({ e \in DOMAIN rows : rows[e].status = "completed" }),
          failed_executions |-> wf.failed_executions +
              Cardinality({ e \in DOMAIN rows : rows[e].status = "failed" }),
          average_duration_seconds |->
              IF completed # {}
              THEN Quotient(SumDurations(rows, completed), Cardinality(completed))
              ELSE << 0, 1 >>,
          last_executed_at |-> t ]

\* The fields _update_workflow_stats assigns, from the executions `rows` its
\* queries return, at time t.
UpdateWorkflowStats(rows, t) ==
    LET completed == { e \in DOMAIN rows : rows[e].status = "completed"
                                           /\ rows[e].duration_seconds # Null }
    IN  [ total_executions |-> Cardinality(DOMAIN rows),
          successful_executions |->
              Cardinality({ e \in DOMAIN rows : rows[e].status = "completed" }),
          failed_executions |->
              Cardinality({ e \in DOMAIN rows : rows[e].status = "failed" }),
          average_duration_seconds |->
              IF completed # {}
              THEN Quotient(SumDurations(rows, completed), Cardinality(completed))
              ELSE << 0, 1 >>,
          last_executed_at |-> t ]

\* _update_workflow_stats, lines 233-238, called by the thread of execution
\* e: workflow.save() writes every field of the Workflow object the thread
\* holds, the statistics just assigned and the status as it was loaded.
SaveWorkflow(e, rows, t) ==
    /\ wf' = UpdateWorkflowStats(rows, t)
    /\ wfStatus' = wfObj[e]

\* get_or_create(...) of _execute_node followed by status = 'running'
MarkRunning(rows, n) ==
    LET row == IF n \in DOMAIN rows THEN rows[n] ELSE NewNodeExecution
    IN  (n :> [ row EXCEPT !.status = "running" ]) @@ rows

\* The outcome of the node as _execute_node records it.
NodeOutcome(row, success) ==
    IF success
    THEN [ row EXCEPT !.status = "completed" ]
    ELSE [ row EXCEPT !.status = "failed", !.error_message = "Node execution failed" ]

\* Mutant of ContinuesTraversal: the next nodes are looked up after a failed
\* node as well.
ContinuesAfterFailure(success) == TRUE

\* Whether _execute_node goes on to the next nodes after the step runner.
ContinuesTraversal(success) == success

\* ------------------------------- start_execution, the handler of line 73
\* str(e) of the ValueError of line 64
NoStartNodeMessage == "Workflow must have at least one start node"

\* Mutant of FailExecution: the handler does not record the error.
FailExecutionSilently(obj, message, t) ==
    [ obj EXCEPT !.status = "failed",
                 !.completed_at = t,
                 !.duration_seconds = t - obj.started_at ]

\* Lines 75-81: the object is saved as failed with the text of the exception.
FailExecution(obj, message, t) ==
    [ obj EXCEPT !.status = "failed",
                 !.error_message = message,
                 !.completed_at = t,
                 !.duration_seconds = t - obj.started_at ]

\* ------------------------------------------------------ cancel_execution
\* Mutant of Cancellable: ended executions are cancelled as well.
CancellableAlways(status) == TRUE

Cancellable(status) == status \in {"queued", "running", "paused"}

\* execution.node_executions.filter(status='running').update(status='cancelled')
CancelNodeExecution(row) ==
    IF row.status = "running" THEN [ row EXCEPT !.status = "cancelled" ] ELSE row

CancelExecutionObject(obj, t) ==
    [ obj EXCEPT !.status = "cancelled",
                 !.completed_at = t,
                 !.duration_seconds = t - obj.started_at ]

\* ================================================================== Init
InitLedger ==
    /\ wf = NewWorkflowStats
    /\ exe = << >>
    /\ nodeExecs = << >>
    /\ mem = << >>
    /\ audit = << >>
    /\ pc = [ e \in AllExecIds |-> "idle" ]
    /\ stack = [ e \in AllExecIds |-> << >> ]
    /\ cur = [ e \in AllExecIds |-> Null ]
    /\ starts = [ e \in AllExecIds |-> 0 ]
    /\ runs = [ e \in AllExecIds |-> [ n \in Node |-> 0 ] ]
    /\ adminEdits = 0
    /\ now = 1
    /\ wfStatus = "draft"
    /\ response = NoResponse
    /\ txn = << >>
    /\ stats = [ e \in AllExecIds |-> NoStats ]
    /\ wfObj = [ e \in AllExecIds |-> "none" ]
    /\ cancels = [ e \in AllExecIds |-> 0 ]

Init ==
    /\ nodes \in { 1..k : k \in 2..Cardinality(Node) }
    /\ nodeType \in TypeChoices(nodes)
    /\ edges \in BoundedSubsets(GraphEdges(nodes, nodeType), MaxEdges)
    /\ InitLedger

\* =============================================================== actions
\* create_execution, lines 24-48: the rows its transaction commits and the
\* object it returns.
CreateRows(e) ==
    /\ exe' = (e :> NewExecution(now)) @@ exe
    /\ mem' = (e :> NewExecution(now)) @@ mem
    /\ nodeExecs' = (e :> [ n \in nodes |-> NewNodeExecution ]) @@ nodeExecs
    /\ audit' = Append(audit, AuditEntry("execution_started", e))
    /\ wfObj' = [ wfObj EXCEPT ![e] = wfStatus ]
    /\ now' = now + 1

\* create_execution(workflow, triggered_by)
CreateExecution(e) ==
    /\ e \notin Created
    /\ CreateRows(e)
    /\ UNCHANGED << stats, cancels, graphVars, apiVars, wf, threadVars, runs, adminEdits >>

\* start_execution, line 58: the caller's object is set to 'running'; nothing
\* is written yet. The execute view (views.py:262-268) calls start_execution
\* once, on the execution it has just created.
StartEnter(e) ==
    /\ e \in Created
    /\ pc[e] = "idle"
    /\ starts[e] = 0
    /\ mem' = [ mem EXCEPT ![e].status = "running" ]
    /\ pc' = [ pc EXCEPT ![e] = "entered" ]
    /\ starts' = [ starts EXCEPT ![e] = @ + 1 ]
    /\ UNCHANGED << localVars, graphVars, apiVars, wf, exe, nodeExecs, audit, stack, cur, runs,
                    adminEdits, now >>

\* start_execution, lines 59-84: the object is saved; without a start node
\* the ValueError rolls the block back and the handler saves the object as
\* failed and recomputes the statistics; otherwise the start node becomes
\* current_node and _execute_node(start_node) begins.
StartBegin(e) ==
    /\ pc[e] = "entered"
    /\ IF StartNodes = {}
       THEN LET t == now + 1
                obj == FailExecution(mem[e], NoStartNodeMessage, t)
            IN  /\ mem' = [ mem EXCEPT ![e] = obj ]
                /\ exe' = [ exe EXCEPT ![e] = obj ]
                /\ SaveWorkflow(e, exe', t)
                /\ now' = t
                /\ pc' = [ pc EXCEPT ![e] = "idle" ]
                /\ UNCHANGED << nodeExecs, cur >>
       ELSE LET start_node == Min(StartNodes)
                obj == [ mem[e] EXCEPT !.current_node = start_node ]
            IN  /\ mem' = [ mem EXCEPT ![e] = obj ]
                /\ exe' = [ exe EXCEPT ![e] = obj ]
                /\ nodeExecs' = [ nodeExecs EXCEPT ![e] = MarkRunning(@, start_node) ]
                /\ cur' = [ cur EXCEPT ![e] = start_node ]
                /\ pc' = [ pc EXCEPT ![e] = "traversing" ]
                /\ UNCHANGED << wf, wfStatus, now >>
    /\ UNCHANGED << localVars, graphVars, response, txn, audit, stack, starts, runs,
                    adminEdits >>

\* _execute_node, lines 91-100, for the next node of the innermost
\* `for next_node in next_nodes` loop; the order of the loop is the order the
\* database returns the outgoing edges in.
NodeBegin(e) ==
    /\ pc[e] = "traversing"
    /\ cur[e] = Null
    /\ stack[e] # << >>
    /\ LET top == Len(stack[e]) IN
       \E ed \in stack[e][top] :
          LET rest == stack[e][top] \ {ed} IN
          /\ stack' = [ stack EXCEPT ![e] =
                          IF rest = {} THEN SubSeq(@, 1, top - 1)
                          ELSE [ @ EXCEPT ![top] = rest ] ]
          /\ cur' = [ cur EXCEPT ![e] = ed.target ]
          /\ nodeExecs' = [ nodeExecs EXCEPT ![e] = MarkRunning(@, ed.target) ]
    /\ UNCHANGED << localVars, graphVars, apiVars, wf, exe, audit, mem, pc,
                    starts, runs, adminEdits, now >>

\* _execute_node, lines 103-134: the step runner returns `success`; the node
\* execution is saved completed or failed; the traversal goes on with the next
\* nodes or _complete_execution marks the execution terminal. When no loop is
\* left start_execution returns.
NodeFinish(e, success) ==
    /\ pc[e] = "traversing"
    /\ cur[e] # Null
    /\ LET n == cur[e]
           t == now + 1
           rows == [ nodeExecs[e] EXCEPT ![n] = NodeOutcome(@, success) ]
           next_nodes == IF ContinuesTraversal(success)
                         THEN GetNextNodes(edges, rows, n) ELSE {}
           final_status == IF success THEN "completed" ELSE "failed"
       IN  /\ nodeExecs' = [ nodeExecs EXCEPT ![e] = rows ]
           /\ runs' = [ runs EXCEPT ![e][n] = @ + 1 ]
           /\ now' = t
           /\ cur' = [ cur EXCEPT ![e] = Null ]
           /\ IF next_nodes # {}
              THEN /\ stack' = [ stack EXCEPT ![e] = Append(@, next_nodes) ]
                   /\ UNCHANGED << mem, exe, wf, wfStatus, audit >>
              ELSE /\ mem' = [ mem EXCEPT ![e] = CompleteExecution(@, final_status, t) ]
                   /\ exe' = [ exe EXCEPT ![e] = mem'[e] ]
                   /\ SaveWorkflow(e, exe', t)
                   /\ audit' = Append(audit, AuditEntry(CompletionAction(final_status), e))
                   /\ UNCHANGED stack
           /\ pc' = [ pc EXCEPT ![e] = IF stack'[e] = << >> THEN "idle" ELSE "traversing" ]
    /\ UNCHANGED << localVars, graphVars, response, txn, starts, adminEdits >>

\* cancel_execution(execution, cancelled_by) on the object `which`: the
\* caller's own object ("mem") or one freshly loaded from the row ("fresh").
CancelWith(e, which) ==
    /\ e \in Created
    /\ LET obj == IF which = "mem" THEN mem[e] ELSE exe[e]
           t == now + 1
       IN  /\ Cancellable(obj.status)
           /\ exe' = [ exe EXCEPT ![e] = CancelExecutionObject(obj, t) ]
           /\ mem' = IF which = "mem" THEN [ mem EXCEPT ![e] = exe'[e] ] ELSE mem
           /\ nodeExecs' = [ nodeExecs EXCEPT ![e] =
                               [ n \in DOMAIN @ |-> CancelNodeExecution(@[n]) ] ]
           /\ audit' = Append(audit, AuditEntry("execution_cancelled", e))
           /\ now' = t
    /\ UNCHANGED << localVars, graphVars, apiVars, wf, threadVars, runs, adminEdits >>

\* cancel_execution called while no start_execution is in progress
CancelExecution(e) ==
    /\ pc[e] = "idle"
    /\ CancelWith(e, "mem")

\* cancel_execution called by another thread on the execution while the thread
\* of start_execution is between line 58 and its first save: on the object the
\* two threads share, or on one loaded from the row. From the first save on
\* the row is written inside the open transaction.atomic() block (line 57)
\* until start_execution returns, and a save from another connection waits.
CancelInFlight(e) ==
    /\ pc[e] = "entered"
    /\ \E which \in {"mem", "fresh"} : CancelWith(e, which)

\* admin.py, WorkflowExecutionAdmin: `status` is an editable field of the
\* change form of an execution.
AdminSetExecutionStatus(e, status) ==
    /\ e \in Created
    /\ pc[e] = "idle"
    /\ adminEdits < MaxAdminEdits
    /\ exe[e].status # status
    /\ exe' = [ exe EXCEPT ![e].status = status ]
    /\ adminEdits' = adminEdits + 1
    /\ UNCHANGED << localVars, graphVars, apiVars, wf, nodeExecs, audit, mem,
                    threadVars, runs, now >>

\* admin.py, WorkflowNodeExecutionInline / WorkflowNodeExecutionAdmin:
\* `status` is an editable field of a node execution.
AdminSetNodeExecutionStatus(e, n, status) ==
    /\ e \in Created
    /\ pc[e] = "idle"
    /\ adminEdits < MaxAdminEdits
    /\ n \in DOMAIN nodeExecs[e]
    /\ nodeExecs[e][n].status # status
    /\ nodeExecs' = [ nodeExecs EXCEPT ![e][n].status = status ]
    /\ adminEdits' = adminEdits + 1
    /\ UNCHANGED << localVars, graphVars, apiVars, wf, exe, audit, mem,
                    threadVars, runs, now >>

\* cancel_execution on an object loaded from the row by its caller
CancelLoaded(e) ==
    /\ pc[e] = "idle"
    /\ CancelWith(e, "fresh")

Next ==
    \/ \E e \in ExecIds : CreateExecution(e)
    \/ \E e \in ExecIds : StartEnter(e)
    \/ \E e \in ExecIds : StartBegin(e)
    \/ \E e \in ExecIds : NodeBegin(e)
    \/ \E e \in ExecIds : \E success \in BOOLEAN : NodeFinish(e, success)
    \/ \E e \in ExecIds : CancelExecution(e)

Spec == Init /\ [][Next]_vars

\* ---------------------------------------- a second thread cancelling a run
Traverse ==
    \E e \in ExecIds :
        \/ StartBegin(e)
        \/ NodeBegin(e)
        \/ \E success \in BOOLEAN : NodeFinish(e, success)

NextConc ==
    \/ Next
    \/ \E e \in ExecIds : CancelInFlight(e)

\* start_execution is a synchronous call: its thread goes on to its return.
SpecConc == Init /\ [][NextConc]_vars /\ WF_vars(Traverse)

\* ------------------------------------------- the ledger edited in the admin
ChainEdges(ns, types) == { ed \in GraphEdges(ns, types) : ed.target = ed.source + 1 }

InitAdmin ==
    /\ nodes \in { 1..k : k \in 2..3 }
    /\ nodeType \in TypeChoices(nodes)
    /\ edges \in BoundedSubsets(ChainEdges(nodes, nodeType), MaxEdges)
    /\ InitLedger

NextAdmin ==
    \/ Next
    \/ \E e \in ExecIds : CancelLoaded(e)
    \/ \E e \in ExecIds : \E status \in EXECUTION_STATUS :
          AdminSetExecutionStatus(e, status)
    \/ \E e \in ExecIds : \E n \in Node : \E status \in NODE_EXECUTION_STATUS :
          AdminSetNodeExecutionStatus(e, n, status)

SpecAdmin == InitAdmin /\ [][NextAdmin]_vars

\* ------------------------------------ start_execution meeting an exception
\* str(e) of an exception a statement of lines 59-68 raises
InternalErrorMessage == "Unexpected error"

\* start_execution, lines 59-68 and 73-84: a statement of the block raises (a
\* query of the start node lookup, or the save of line 68 after current_node
\* was assigned); the block is rolled back and the handler saves the object
\* as failed and recomputes the statistics.
StartRaise(e, at) ==
    /\ pc[e] = "entered"
    /\ at = "save" => StartNodes # {}
    /\ LET t == now + 1
           obj == IF at = "save"
                  THEN [ mem[e] EXCEPT !.current_node = Min(StartNodes) ]
                  ELSE mem[e]
       IN  /\ mem' = [ mem EXCEPT ![e] = FailExecution(obj, InternalErrorMessage, t) ]
           /\ exe' = [ exe EXCEPT ![e] = mem'[e] ]
           /\ SaveWorkflow(e, exe', t)
           /\ now' = t
    /\ pc' = [ pc EXCEPT ![e] = "idle" ]
    /\ UNCHANGED << localVars, graphVars, response, txn, nodeExecs, audit, stack, cur, starts,
                    runs, adminEdits >>

NextFault ==
    \/ Next
    \/ \E e \in ExecIds : \E at \in {"lookup", "save"} : StartRaise(e, at)

SpecFault == Init /\ [][NextFault]_vars

\* ------------------------------- create_execution, statement by statement
\* The rows create_execution's transaction writes, as that transaction sees
\* them; `txn` keeps the rows as they were committed when the block of line 24
\* was entered, which is what every other connection reads until the commit.
Ledger == [ exe |-> exe, nodeExecs |-> nodeExecs, audit |-> audit ]

\* Mutant of Committed: other connections read the uncommitted rows.
ReadUncommitted(snapshot, current) == current

\* The rows a reader on another connection is given.
Committed(snapshot, current) ==
    IF snapshot = << >> THEN current ELSE snapshot[1]

\* Lines 24-31: the atomic block is entered and the execution is inserted.
CreateBegin(e) ==
    /\ e \notin Created
    /\ pc[e] = "idle"
    /\ txn = << >>
    /\ txn' = << Ledger >>
    /\ exe' = (e :> NewExecution(now)) @@ exe
    /\ nodeExecs' = (e :> << >>) @@ nodeExecs
    /\ pc' = [ pc EXCEPT ![e] = "creating" ]
    /\ UNCHANGED << localVars, graphVars, wf, audit, mem, stack, cur, starts, runs,
                    adminEdits, now, wfStatus, response >>

\* Lines 34-40, one turn of the loop over workflow.nodes in creation order.
CreateNodeExecution(e) ==
    /\ pc[e] = "creating"
    /\ nodes \ DOMAIN nodeExecs[e] # {}
    /\ LET n == Min(nodes \ DOMAIN nodeExecs[e])
       IN  nodeExecs' = [ nodeExecs EXCEPT ![e] = (n :> NewNodeExecution) @@ @ ]
    /\ UNCHANGED << localVars, graphVars, apiVars, wf, exe, audit, mem, threadVars, runs,
                    adminEdits, now >>

\* Lines 43-48: the audit entry is written, the block commits and the
\* execution is returned.
CreateCommit(e) ==
    /\ pc[e] = "creating"
    /\ nodes \ DOMAIN nodeExecs[e] = {}
    /\ audit' = Append(audit, AuditEntry("execution_started", e))
    /\ mem' = (e :> exe[e]) @@ mem
    /\ wfObj' = [ wfObj EXCEPT ![e] = wfStatus ]
    /\ txn' = << >>
    /\ pc' = [ pc EXCEPT ![e] = "idle" ]
    /\ now' = now + 1
    /\ UNCHANGED << stats, cancels, graphVars, wf, exe, nodeExecs, stack, cur, starts, runs,
                    adminEdits, wfStatus, response >>

\* Lines 49-51: a statement of the block raises; the block is rolled back and
\* the exception is raised again, which the execute view (views.py:262-264)
\* does not catch.
CreateRaise(e) ==
    /\ pc[e] = "creating"
    /\ exe' = txn[1].exe
    /\ nodeExecs' = txn[1].nodeExecs
    /\ audit' = txn[1].audit
    /\ txn' = << >>
    /\ pc' = [ pc EXCEPT ![e] = "idle" ]
    /\ response' = Response("execute", 500, InternalErrorMessage)
    /\ UNCHANGED << localVars, graphVars, wf, mem, stack, cur, starts, runs, adminEdits,
                    now, wfStatus >>

\* ------------------------------------------------ WorkflowViewSet (views.py)
WORKFLOW_STATUS == {"draft", "active", "paused", "inactive", "archived"}

\* NodeType.allows_multiple_outputs of the catalogue's node types
AllowsMultipleOutputs(type) == type # "end"

HasNodeOfType(ns, types, type) == \E n \in ns : types[n] = type

\* Mutant of ActivationError: only the start node is asked for.
ActivationErrorStartOnly(ns, types) ==
    IF ~HasNodeOfType(ns, types, "start")
    THEN "Workflow must have at least one start node"
    ELSE ""

\* activate, lines 221-232: the error the request is refused with, "" if none
ActivationError(ns, types) ==
    IF ~HasNodeOfType(ns, types, "start")
    THEN "Workflow must have at least one start node"
    ELSE IF ~HasNodeOfType(ns, types, "end")
    THEN "Workflow must have at least one end node"
    ELSE ""

\* Mutant of ExecuteError: only archived workflows are refused.
ExecuteErrorArchivedOnly(status) ==
    IF status = "archived" THEN "Workflow must be active to execute" ELSE ""

\* execute, lines 253-257: the error the request is refused with, "" if none
ExecuteError(status) ==
    IF status # "active" THEN "Workflow must be active to execute" ELSE ""

\* No request is being served: every execution created by an execute request
\* has been started, and start_execution has returned.
Quiescent ==
    \A e \in ExecIds : pc[e] = "idle" /\ (e \in Created => starts[e] > 0)

\* activate: refused with 400 without a start node or without an end node,
\* else the status becomes 'active'.
Activate ==
    /\ Quiescent
    /\ wfStatus # "deleted"
    /\ LET error == ActivationError(nodes, nodeType)
       IN  IF error # ""
           THEN /\ response' = Response("activate", 400, error)
                /\ UNCHANGED wfStatus
           ELSE /\ wfStatus' = "active"
                /\ response' = Response("activate", 200, "")
    /\ UNCHANGED << localVars, graphVars, wf, exe, nodeExecs, audit, mem, threadVars, runs,
                    adminEdits, now, txn >>

\* deactivate, lines 239-246
Deactivate ==
    /\ Quiescent
    /\ wfStatus # "deleted"
    /\ wfStatus' = "inactive"
    /\ response' = Response("deactivate", 200, "")
    /\ UNCHANGED << localVars, graphVars, wf, exe, nodeExecs, audit, mem, threadVars, runs,
                    adminEdits, now, txn >>

\* execute, lines 251-264: refused with 400 unless the workflow is active,
\* else create_execution; start_execution (StartEnter) follows, and the
\* request is answered 201 in both branches of lines 267-272.
ViewExecute(e) ==
    /\ Quiescent
    /\ wfStatus # "deleted"
    /\ e \notin Created
    /\ LET error == ExecuteError(wfStatus)
       IN  IF error # ""
           THEN /\ response' = Response("execute", 400, error)
                /\ UNCHANGED << exe, mem, nodeExecs, audit, now, wfObj >>
           ELSE /\ CreateRows(e)
                /\ response' = Response("execute", 201, "")
    /\ UNCHANGED << stats, cancels, graphVars, wf, threadVars, runs, adminEdits, wfStatus, txn >>

\* DELETE of the workflow (ModelViewSet.destroy): the row is deleted and with
\* it, by on_delete=CASCADE, its nodes, edges, executions, their node
\* executions, and the audit entries that refer to the workflow or to one of
\* its executions; every entry the services write refers to the workflow.
DestroyWorkflow ==
    /\ Quiescent
    /\ wfStatus # "deleted"
    /\ wfStatus' = "deleted"
    /\ nodes' = {}
    /\ edges' = {}
    /\ exe' = << >>
    /\ nodeExecs' = << >>
    /\ mem' = << >>
    /\ audit' = << >>
    /\ response' = Response("destroy", 204, "")
    /\ UNCHANGED << localVars, nodeType, wf, threadVars, runs, adminEdits, now, txn >>

\* The graphs the builder can save: every node of any of these types.
TypeChoicesView(ns) ==
    { t \in [Node -> {"start", "process", "end"}] :
        \A n \in Node \ ns : t[n] = "process" }

InitView ==
    /\ nodes \in { 1..k : k \in 1..3 }
    /\ nodeType \in TypeChoicesView(nodes)
    /\ edges \in BoundedSubsets(GraphEdges(nodes, nodeType), MaxEdges)
    /\ InitLedger

NextView ==
    \/ Activate
    \/ Deactivate
    \/ DestroyWorkflow
    \/ \E e \in ExecIds : ViewExecute(e)
    \/ \E e \in ExecIds : StartEnter(e)
    \/ \E e \in ExecIds : StartBegin(e)
    \/ \E e \in ExecIds : NodeBegin(e)
    \/ \E e \in ExecIds : \E success \in BOOLEAN : NodeFinish(e, success)

SpecView == InitView /\ [][NextView]_vars

NextTxn ==
    \/ \E e \in ExecIds : CreateBegin(e)
    \/ \E e \in ExecIds : CreateNodeExecution(e)
    \/ \E e \in ExecIds : CreateCommit(e)
    \/ \E e \in ExecIds : CreateRaise(e)
    \/ \E e \in ExecIds : StartEnter(e)
    \/ \E e \in ExecIds : StartBegin(e)
    \/ \E e \in ExecIds : NodeBegin(e)
    \/ \E e \in ExecIds : \E success \in BOOLEAN : NodeFinish(e, success)

SpecTxn == Init /\ [][NextTxn]_vars


\* ------------------------------------- executions one after the other, and
\* _update_workflow_stats called on its own
\* Largest reading of the clock at which _update_workflow_stats is called on
\* its own.
MaxNow == 8

\* No other execution is inside start_execution.
Alone(e) == \A o \in AllExecIds \ {e} : pc[o] = "idle"

\* _update_workflow_stats(workflow), lines 215-238, called with a Workflow
\* object just loaded, as the tests call it.
RecomputeStats ==
    /\ \A e \in AllExecIds : pc[e] = "idle"
    /\ now < MaxNow
    /\ wf' = UpdateWorkflowStats(exe, now + 1)
    /\ now' = now + 1
    /\ UNCHANGED << localVars, graphVars, apiVars, exe, nodeExecs, audit, mem, threadVars,
                    runs, adminEdits >>

InitStats ==
    /\ nodes = 1..2
    /\ nodeType \in TypeChoices(nodes)
    /\ edges \in SUBSET ChainEdges(nodes, nodeType)
    /\ InitLedger

NextStats ==
    \/ \E e \in AllExecIds : CreateExecution(e)
    \/ \E e \in AllExecIds : Alone(e) /\ StartEnter(e)
    \/ \E e \in AllExecIds : StartBegin(e)
    \/ \E e \in AllExecIds : NodeBegin(e)
    \/ \E e \in AllExecIds : \E success \in BOOLEAN : NodeFinish(e, success)
    \/ RecomputeStats

SpecStats == InitStats /\ [][NextStats]_vars

\* ------------------------------------------- several executions at a time
\* Each start_execution runs in its own thread and its own transaction,
\* opened at line 57 and committed when the block is left; the database
\* isolates the transactions as READ COMMITTED and locks a row written until
\* the writer commits.

\* The executions as the queries of the thread of execution e return them:
\* its own row as it wrote it, the row of an execution another thread is
\* running as it was committed by create_execution.
VisibleRows(e, rows) ==
    [ x \in DOMAIN rows |->
        IF x = e \/ pc[x] = "idle" THEN rows[x] ELSE NewExecution(rows[x].started_at) ]

\* The thread of execution o has saved the Workflow row in the transaction it
\* has not committed yet: every workflow.save() of _complete_execution is
\* followed by the audit entry of lines 206-213.
HoldsWorkflowLock(o) ==
    /\ pc[o] # "idle"
    /\ \E i \in DOMAIN audit :
          /\ audit[i].workflow_execution = o
          /\ audit[i].action \in {"execution_completed", "execution_failed"}

\* Mutant of SaveNodeExecution: the row of the node is written in every
\* execution.
SaveNodeExecutionOfNode(all, e, n, row) ==
    [ x \in DOMAIN all |-> [ all[x] EXCEPT ![n] = row ] ]

\* node_execution.save(), lines 110 and 131: the row of node n of execution e
SaveNodeExecution(all, e, n, row) == [ all EXCEPT ![e][n] = row ]

\* _execute_node, lines 103-134, as NodeFinish, up to the assignments of
\* _update_workflow_stats (lines 218-237): the counts are read and assigned to
\* the Workflow object of the thread, which is not saved yet.
NodeFinishQuery(e, success) ==
    /\ pc[e] = "traversing"
    /\ cur[e] # Null
    /\ LET n == cur[e]
           t == now + 1
           all == SaveNodeExecution(nodeExecs, e, n, NodeOutcome(nodeExecs[e][n], success))
           next_nodes == IF ContinuesTraversal(success)
                         THEN GetNextNodes(edges, all[e], n) ELSE {}
           final_status == IF success THEN "completed" ELSE "failed"
       IN  /\ nodeExecs' = all
           /\ runs' = [ runs EXCEPT ![e][n] = @ + 1 ]
           /\ now' = t
           /\ cur' = [ cur EXCEPT ![e] = Null ]
           /\ IF next_nodes # {}
              THEN /\ stack' = [ stack EXCEPT ![e] = Append(@, next_nodes) ]
                   /\ UNCHANGED << mem, exe, stats, pc >>
              ELSE /\ mem' = [ mem EXCEPT ![e] = CompleteExecution(@, final_status, t) ]
                   /\ exe' = [ exe EXCEPT ![e] = mem'[e] ]
                   /\ stats' = [ stats EXCEPT ![e] =
                                   UpdateWorkflowStats(VisibleRows(e, exe'), t) ]
                   /\ pc' = [ pc EXCEPT ![e] = "saving" ]
                   /\ UNCHANGED stack
    /\ UNCHANGED << graphVars, apiVars, wf, wfObj, cancels, audit, starts, adminEdits >>

\* _update_workflow_stats, line 238, and _complete_execution, lines 206-213:
\* workflow.save() waits while another transaction holds the lock of the
\* row, then writes every field of the object; the audit entry is written;
\* when no loop is left start_execution returns and its transaction commits.
StatsSave(e) ==
    /\ pc[e] = "saving"
    /\ \A o \in AllExecIds \ {e} : ~HoldsWorkflowLock(o)
    /\ wf' = stats[e]
    /\ wfStatus' = wfObj[e]
    /\ audit' = Append(audit, AuditEntry(CompletionAction(mem[e].status), e))
    /\ stats' = [ stats EXCEPT ![e] = NoStats ]
    /\ pc' = [ pc EXCEPT ![e] = IF stack[e] = << >> THEN "idle" ELSE "traversing" ]
    /\ UNCHANGED << graphVars, response, txn, wfObj, cancels, exe, nodeExecs, mem, stack, cur,
                    starts, runs, adminEdits, now >>

\* Workflows that have a start node.
InitMulti ==
    /\ nodes = 1..2
    /\ nodeType \in { t \in TypeChoices(nodes) : t[1] = "start" }
    /\ edges \in BoundedSubsets(GraphEdges(nodes, nodeType), MaxEdges)
    /\ InitLedger

NextMulti ==
    \/ \E e \in AllExecIds : CreateExecution(e)
    \/ \E e \in AllExecIds : StartEnter(e)
    \/ \E e \in AllExecIds : StartBegin(e)
    \/ \E e \in AllExecIds : NodeBegin(e)
    \/ \E e \in AllExecIds : \E success \in BOOLEAN : NodeFinishQuery(e, success)
    \/ \E e \in AllExecIds : StatsSave(e)

SpecMulti == InitMulti /\ [][NextMulti]_vars

\* ------------------------------------------------- the canvas saved again
\* The chains the canvas is saved as in this scenario: edges 'always' or
\* 'success' between consecutive nodes.
CanvasEdges(ns, types) ==
    { ed \in ChainEdges(ns, types) : ed.condition_type \in {"always", "success"} }

\* save_canvas, lines 153-214, served while no start_execution is in
\* progress: every WorkflowNode and WorkflowEdge of the workflow is deleted
\* and the nodes and edges of the request are created as new rows. Deleting
\* a node deletes the node executions that refer to it (on_delete=CASCADE,
\* models.py line 321) and sets to null the current_node that refers to it
\* (on_delete=SET_NULL, line 274).
SaveCanvas ==
    /\ \A e \in AllExecIds : pc[e] = "idle"
    /\ wfStatus # "deleted"
    /\ nodes' \in { 1..k : k \in 2..3 }
    /\ nodeType' \in TypeChoices(nodes')
    /\ edges' \in SUBSET CanvasEdges(nodes', nodeType')
    /\ nodeExecs' = [ e \in DOMAIN nodeExecs |-> << >> ]
    /\ exe' = [ e \in DOMAIN exe |-> [ exe[e] EXCEPT !.current_node = Null ] ]
    /\ response' = Response("save_canvas", 200, "")
    /\ UNCHANGED << localVars, wf, audit, mem, threadVars, runs, adminEdits, now, wfStatus,
                    txn >>

InitCanvas ==
    /\ nodes \in { 1..k : k \in 2..3 }
    /\ nodeType \in TypeChoices(nodes)
    /\ edges \in SUBSET CanvasEdges(nodes, nodeType)
    /\ InitLedger

NextCanvas ==
    \/ Next
    \/ SaveCanvas

SpecCanvas == InitCanvas /\ [][NextCanvas]_vars

\* ----------------------------- the workflow changed while an execution runs
\* deactivate, lines 239-246, served by another thread while start_execution
\* is in progress: its workflow.save() waits while the transaction of
\* start_execution holds the lock of the Workflow row.
DeactivateInFlight ==
    /\ \E e \in ExecIds : pc[e] # "idle"
    /\ \A e \in ExecIds : ~HoldsWorkflowLock(e)
    /\ wfStatus # "deleted"
    /\ wfStatus' = "inactive"
    /\ response' = Response("deactivate", 200, "")
    /\ UNCHANGED << localVars, graphVars, wf, exe, nodeExecs, audit, mem, threadVars, runs,
                    adminEdits, now, txn >>

NextModify ==
    \/ NextView
    \/ DeactivateInFlight

SpecModify == InitView /\ [][NextModify]_vars

\* ------------------------------------------------------ conditional edges
\* condition_config of a WorkflowEdge (models.py line 236, a JSON object the
\* request of save_canvas supplies): {} or a comparison of a field with a
\* value.
NoConditionConfig == [ field |-> "", operator |-> "", value |-> 0 ]

CONDITION_CONFIGS ==
    { [ field |-> "amount", operator |-> op, value |-> 1000 ] : op \in {"gt", "lte"} }

\* The edges of a workflow with their condition_config: 'conditional' edges
\* carry a comparison, the others {}.
ConfiguredEdges(ns, types) ==
    { [ source |-> i, target |-> j, condition_type |-> c, condition_config |-> cfg ] :
        i \in ns, j \in ns, c \in {"always", "success", "conditional"},
        cfg \in CONDITION_CONFIGS \cup {NoConditionConfig} }

\* unique_together of WorkflowEdge: one edge per source, target and
\* condition_type.
UniqueTogether(es) ==
    \A x \in es : \A y \in es :
        ( x.source = y.source /\ x.target = y.target
          /\ x.condition_type = y.condition_type ) => x = y

InitCond ==
    /\ nodes = 1..3
    /\ nodeType \in TypeChoices(nodes)
    /\ edges \in { es \in BoundedSubsets(
                            { ed \in ConfiguredEdges(nodes, nodeType) :
                                /\ ed.source < ed.target
                                /\ (ed.condition_type = "conditional")
                                       = (ed.condition_config # NoConditionConfig) },
                            MaxEdges) : UniqueTogether(es) }
    /\ InitLedger

SpecCond == InitCond /\ [][Next]_vars

\* --------------------------------- cancel_execution that finds nothing to do
\* Largest number of cancel_execution calls that change nothing, for each
\* execution.
MaxCancels == 1

\* cancel_execution, line 243, on an object whose status is not queued,
\* running or paused: the body of the `if` is skipped and the call returns.
CancelNoOp(e, which) ==
    /\ e \in Created
    /\ pc[e] = "idle"
    /\ ~Cancellable(IF which = "mem" THEN mem[e].status ELSE exe[e].status)
    /\ cancels[e] < MaxCancels
    /\ cancels' = [ cancels EXCEPT ![e] = @ + 1 ]
    /\ UNCHANGED << stats, wfObj, graphVars, apiVars, wf, exe, nodeExecs, audit, mem,
                    threadVars, runs, adminEdits, now >>

NextCancel ==
    \/ Next
    \/ \E e \in ExecIds : CancelLoaded(e)
    \/ \E e \in ExecIds : \E which \in {"mem", "fresh"} : CancelNoOp(e, which)

SpecCancel == InitAdmin /\ [][NextCancel]_vars

\* ------------------------------------------------------------ retry limit
\* WorkflowNode.retry_count of node n: the default of models.py, line 192.
RetryCount(n) == 3

\* ----------------------------------------------- a failing audit write
\* services.py, lines 43-48 with 291-294: WorkflowAuditLog.objects.create
\* raises inside log_action, which logs the error and returns.  The call is
\* made inside the atomic block of create_execution (line 24).  An error
\* raised before the INSERT is issued (marked = FALSE) leaves the open
\* transaction alone and the block commits without the entry.  An error
\* raised by the INSERT itself (marked = TRUE) marks the transaction for
\* rollback, so that the block, left without an exception at line 48, rolls
\* back instead of committing: the execution object is returned and its rows
\* are gone.  The write fails in the first create_execution only.
CreateCommitAuditFails(e, marked) ==
    /\ pc[e] = "creating"
    /\ e \notin DOMAIN mem
    /\ nodes \ DOMAIN nodeExecs[e] = {}
    /\ exe' = IF marked THEN txn[1].exe ELSE exe
    /\ nodeExecs' = IF marked THEN txn[1].nodeExecs ELSE nodeExecs
    /\ audit' = IF marked THEN txn[1].audit ELSE audit
    /\ mem' = (e :> exe[e]) @@ mem
    /\ wfObj' = [ wfObj EXCEPT ![e] = wfStatus ]
    /\ txn' = << >>
    /\ pc' = [ pc EXCEPT ![e] = "idle" ]
    /\ now' = now + 1
    /\ UNCHANGED << stats, cancels, graphVars, wf, stack, cur, starts, runs,
                    adminEdits, wfStatus, response >>

NextAudit ==
    \/ NextTxn
    \/ \E e \in ExecIds : \E marked \in BOOLEAN : CreateCommitAuditFails(e, marked)

SpecAudit == InitAdmin /\ [][NextAudit]_vars

\* ------------------------------------------- update through the serializer
\* PUT or PATCH of the workflow (views.py:143-144, perform_update):
\* WorkflowSerializer lists 'status' in fields and not in read_only_fields
\* (serializers.py:89-101) and has no validate method, so any of the choices
\* of Workflow.status is saved as sent.
UpdateWorkflow(status) ==
    /\ Quiescent
    /\ wfStatus # "deleted"
    /\ wfStatus' = status
    /\ response' = Response("update", 200, "")
    /\ UNCHANGED << localVars, graphVars, wf, exe, nodeExecs, audit, mem, threadVars, runs,
                    adminEdits, now, txn >>

NextUpdate ==
    \/ NextView
    \/ \E status \in WORKFLOW_STATUS : UpdateWorkflow(status)

SpecUpdate == InitView /\ [][NextUpdate]_vars

\* --------------------------------------- the queries of the statistics
\* _update_workflow_stats issues its COUNT queries one statement after the
\* other (lines 218, 219, 220); under READ COMMITTED each statement reads
\* what is committed when it runs.

\* _execute_node, lines 103-134, as NodeFinishQuery, up to the first query of
\* _update_workflow_stats (line 218): total.
NodeFinishTotal(e, success) ==
    /\ pc[e] = "traversing"
    /\ cur[e] # Null
    /\ LET n == cur[e]
           t == now + 1
           all == SaveNodeExecution(nodeExecs, e, n, NodeOutcome(nodeExecs[e][n], success))
           next_nodes == IF ContinuesTraversal(success)
                         THEN GetNextNodes(edges, all[e], n) ELSE {}
           final_status == IF success THEN "completed" ELSE "failed"
       IN  /\ nodeExecs' = all
           /\ runs' = [ runs EXCEPT ![e][n] = @ + 1 ]
           /\ now' = t
           /\ cur' = [ cur EXCEPT ![e] = Null ]
           /\ IF next_nodes # {}
              THEN /\ stack' = [ stack EXCEPT ![e] = Append(@, next_nodes) ]
                   /\ UNCHANGED << mem, exe, stats, pc >>
              ELSE /\ mem' = [ mem EXCEPT ![e] = CompleteExecution(@, final_status, t) ]
                   /\ exe' = [ exe EXCEPT ![e] = mem'[e] ]
                   /\ stats' = [ stats EXCEPT ![e] =
                         [ total_executions |->
                             UpdateWorkflowStats(VisibleRows(e, exe'), t).total_executions ] ]
                   /\ pc' = [ pc EXCEPT ![e] = "counted_total" ]
                   /\ UNCHANGED stack
    /\ UNCHANGED << graphVars, apiVars, wf, wfObj, cancels, audit, starts, adminEdits >>

\* _update_workflow_stats, line 219: successful.
CountSuccessful(e) ==
    /\ pc[e] = "counted_total"
    /\ stats' = [ stats EXCEPT ![e] =
          [ total_executions |-> @.total_executions,
            successful_executions |->
                UpdateWorkflowStats(VisibleRows(e, exe), now).successful_executions ] ]
    /\ pc' = [ pc EXCEPT ![e] = "counted_successful" ]
    /\ UNCHANGED << graphVars, apiVars, wf, wfObj, cancels, exe, nodeExecs, audit, mem,
                    stack, cur, starts, runs, adminEdits, now >>

\* _update_workflow_stats, lines 220-237: failed, the average duration, and
\* the assignments to the Workflow object of the thread.
CountFailed(e) ==
    /\ pc[e] = "counted_successful"
    /\ stats' = [ stats EXCEPT ![e] =
          [ UpdateWorkflowStats(VisibleRows(e, exe), now) EXCEPT
              !.total_executions = stats[e].total_executions,
              !.successful_executions = stats[e].successful_executions ] ]
    /\ pc' = [ pc EXCEPT ![e] = "saving" ]
    /\ UNCHANGED << graphVars, apiVars, wf, wfObj, cancels, exe, nodeExecs, audit, mem,
                    stack, cur, starts, runs, adminEdits, now >>

NextQuery ==
    \/ \E e \in AllExecIds : CreateExecution(e)
    \/ \E e \in AllExecIds : StartEnter(e)
    \/ \E e \in AllExecIds : StartBegin(e)
    \/ \E e \in AllExecIds : NodeBegin(e)
    \/ \E e \in AllExecIds : \E success \in BOOLEAN : NodeFinishTotal(e, success)
    \/ \E e \in AllExecIds : CountSuccessful(e)
    \/ \E e \in AllExecIds : CountFailed(e)
    \/ \E e \in AllExecIds : StatsSave(e)

SpecQuery == InitMulti /\ [][NextQuery]_vars

\* ------------------------------------------------- graphs with a cycle
\* Nothing in models.py or in save_canvas keeps an edge from leading back to
\* a node already on the path.  _execute_node calls itself for every next
\* node (lines 117-119), so on a cycle the calls nest until the interpreter
\* raises RecursionError, an Exception, which the handler of lines 136-142
\* of an enclosing call catches.

\* The number of nested _execute_node calls the interpreter's recursion limit
\* leaves room for.
MaxDepth == 3

\* The call that would be the frames-th nested _execute_node does not run to
\* its end: RecursionError is raised in it.
ExceedsRecursionLimit(frames) == frames > MaxDepth

\* str(e) of the RecursionError
RecursionMessage == "maximum recursion depth exceeded"

\* Mutant of HandleException: the handler logs the error and returns.
HandleExceptionLogOnly(obj, t) == obj

\* Lines 136-142, the execution as the handler leaves it:
\* _complete_execution(execution, 'failed').
HandleException(obj, t) == CompleteExecution(obj, "failed", t)

\* Lines 138-140: the node execution of the call whose handler runs.
NodeException(row, message) ==
    [ row EXCEPT !.status = "failed", !.error_message = message ]

\* The edges a cyclic workflow is drawn from: any source and target, at most
\* one edge from a node to a node.
CycleEdges(ns, types) ==
    { ed \in CandEdges(ns, types) : ed.condition_type \in {"always", "success", "failure"} }

OneEdgePerPair(es) ==
    \A x \in es : \A y \in es : (x.source = y.source /\ x.target = y.target) => x = y

\* A frame of _execute_node that has reached its loop of lines 118-119: its
\* node and the edges whose targets the loop has not executed yet.
Frame(n, next_nodes) == [ node |-> n, pending |-> next_nodes ]

\* _execute_node, lines 91-100, called by the innermost loop for its next
\* node; the frame of the caller stays on the stack.
CycleNodeBegin(e) ==
    /\ pc[e] = "traversing"
    /\ cur[e] = Null
    /\ stack[e] # << >>
    /\ ~ExceedsRecursionLimit(Len(stack[e]) + 1)
    /\ LET top == Len(stack[e]) IN
       \E ed \in stack[e][top].pending :
          /\ stack' = [ stack EXCEPT ![e][top].pending = @ \ {ed} ]
          /\ cur' = [ cur EXCEPT ![e] = ed.target ]
          /\ nodeExecs' = [ nodeExecs EXCEPT ![e] = MarkRunning(@, ed.target) ]
    /\ UNCHANGED << localVars, graphVars, apiVars, wf, exe, audit, mem, pc,
                    starts, runs, adminEdits, now >>

\* _execute_node, lines 103-134, as NodeFinish; with next nodes the frame
\* enters its loop, without it returns to its caller.
CycleNodeFinish(e, success) ==
    /\ pc[e] = "traversing"
    /\ cur[e] # Null
    /\ LET n == cur[e]
           t == now + 1
           rows == [ nodeExecs[e] EXCEPT ![n] = NodeOutcome(@, success) ]
           next_nodes == IF ContinuesTraversal(success)
                         THEN GetNextNodes(edges, rows, n) ELSE {}
           final_status == IF success THEN "completed" ELSE "failed"
       IN  /\ nodeExecs' = [ nodeExecs EXCEPT ![e] = rows ]
           /\ runs' = [ runs EXCEPT ![e][n] = @ + 1 ]
           /\ now' = t
           /\ cur' = [ cur EXCEPT ![e] = Null ]
           /\ IF next_nodes # {}
              THEN /\ stack' = [ stack EXCEPT ![e] = Append(@, Frame(n, next_nodes)) ]
                   /\ UNCHANGED << mem, exe, wf, wfStatus, audit >>
              ELSE /\ mem' = [ mem EXCEPT ![e] = CompleteExecution(@, final_status, t) ]
                   /\ exe' = [ exe EXCEPT ![e] = mem'[e] ]
                   /\ SaveWorkflow(e, exe', t)
                   /\ audit' = Append(audit, AuditEntry(CompletionAction(final_status), e))
                   /\ UNCHANGED stack
           /\ pc' = [ pc EXCEPT ![e] = IF stack'[e] = << >> THEN "idle" ELSE "traversing" ]
    /\ UNCHANGED << localVars, graphVars, response, txn, starts, adminEdits >>

\* Lines 118-119 and 136-142: the call for the next node raises
\* RecursionError, before or after it has marked its node execution running
\* (`entered`); the loop is left, the handler of the calling frame saves its
\* own node execution as failed, completes the execution as failed, and the
\* frame returns.
CycleRecursionError(e, entered) ==
    /\ pc[e] = "traversing"
    /\ cur[e] = Null
    /\ stack[e] # << >>
    /\ ExceedsRecursionLimit(Len(stack[e]) + 1)
    /\ LET top == Len(stack[e])
           n == stack[e][top].node
           t == now + 1
       IN  /\ stack[e][top].pending # {}
           /\ \E ed \in stack[e][top].pending :
                 LET rows == IF entered THEN MarkRunning(nodeExecs[e], ed.target)
                             ELSE nodeExecs[e]
                 IN  nodeExecs' = [ nodeExecs EXCEPT ![e] =
                         [ rows EXCEPT ![n] = NodeException(@, RecursionMessage) ] ]
           /\ mem' = [ mem EXCEPT ![e] = HandleException(@, t) ]
           /\ exe' = [ exe EXCEPT ![e] = mem'[e] ]
           /\ SaveWorkflow(e, exe', t)
           /\ audit' = Append(audit, AuditEntry(CompletionAction(mem'[e].status), e))
           /\ now' = t
           /\ stack' = [ stack EXCEPT ![e] = SubSeq(@, 1, top - 1) ]
    /\ pc' = [ pc EXCEPT ![e] = IF stack'[e] = << >> THEN "idle" ELSE "traversing" ]
    /\ UNCHANGED << localVars, graphVars, response, txn, cur, starts, runs, adminEdits >>

\* str(e) of the TransactionManagementError a query raises in a transaction
\* marked for rollback
BrokenTransactionMessage == "An error occurred in the current transaction"

\* Lines 118-119, 136-142 and 73-84: RecursionError is raised inside a write
\* of the nested call, which marks the transaction of line 57 for rollback.
\* The save of every handler on the way out (line 140) then raises in turn,
\* the block of start_execution is rolled back, and the handler of line 73
\* saves the caller's object as failed and recomputes the statistics.
CycleRecursionErrorRollback(e) ==
    /\ pc[e] = "traversing"
    /\ cur[e] = Null
    /\ stack[e] # << >>
    /\ ExceedsRecursionLimit(Len(stack[e]) + 1)
    /\ stack[e][Len(stack[e])].pending # {}
    /\ LET t == now + 1 IN
       /\ nodeExecs' = [ nodeExecs EXCEPT ![e] =
                           [ n \in DOMAIN nodeExecs[e] |-> NewNodeExecution ] ]
       /\ audit' = SelectSeq(audit, LAMBDA a : a.action = "execution_started")
       /\ mem' = [ mem EXCEPT ![e] = FailExecution(@, BrokenTransactionMessage, t) ]
       /\ exe' = [ exe EXCEPT ![e] = mem'[e] ]
       /\ SaveWorkflow(e, exe', t)
       /\ now' = t
    /\ stack' = [ stack EXCEPT ![e] = << >> ]
    /\ pc' = [ pc EXCEPT ![e] = "idle" ]
    /\ UNCHANGED << localVars, graphVars, response, txn, cur, starts, runs, adminEdits >>

\* Line 119, the loop of the innermost frame is exhausted: the frame returns
\* to its caller, the outermost one to start_execution, whose block commits.
CycleReturn(e) ==
    /\ pc[e] = "traversing"
    /\ cur[e] = Null
    /\ stack[e] # << >>
    /\ stack[e][Len(stack[e])].pending = {}
    /\ stack' = [ stack EXCEPT ![e] = SubSeq(@, 1, Len(@) - 1) ]
    /\ pc' = [ pc EXCEPT ![e] = IF stack'[e] = << >> THEN "idle" ELSE "traversing" ]
    /\ UNCHANGED << localVars, graphVars, apiVars, wf, exe, nodeExecs, audit, mem, cur,
                    starts, runs, adminEdits, now >>

InitCycle ==
    /\ nodes = 1..2
    /\ nodeType \in TypeChoices(nodes)
    /\ edges \in { es \in SUBSET CycleEdges(nodes, nodeType) : OneEdgePerPair(es) }
    /\ InitLedger

CycleTraverse ==
    \E e \in ExecIds :
        \/ StartBegin(e)
        \/ CycleNodeBegin(e)
        \/ \E success \in BOOLEAN : CycleNodeFinish(e, success)
        \/ \E entered \in BOOLEAN : CycleRecursionError(e, entered)
        \/ CycleRecursionErrorRollback(e)
        \/ CycleReturn(e)

NextCycle ==
    \/ \E e \in ExecIds : CreateExecution(e)
    \/ \E e \in ExecIds : StartEnter(e)
    \/ CycleTraverse

\* start_execution is a synchronous call: its thread goes on to its return.
SpecCycle == InitCycle /\ [][NextCycle]_vars /\ WF_vars(CycleTraverse)

\* ================================================================ claims
Terminal == {"completed", "failed", "cancelled"}

\* start_execution has been called on the execution and has returned.
Finished(e) == e \in Created /\ pc[e] = "idle" /\ starts[e] > 0

LastNode == Cardinality(nodes)

\* The workflow is the chain 1 -> 2 -> ... -> last from its start node to its
\* end node, every edge 'always' or 'success'.
LinearChain ==
    /\ nodeType[1] = "start"
    /\ Cardinality(edges) = LastNode - 1
    /\ \A n \in nodes \ {LastNode} :
          \E ed \in edges : /\ ed.source = n
                            /\ ed.target = n + 1
                            /\ ed.condition_type \in {"always", "success"}

NoNodeFailed(e) == \A n \in DOMAIN nodeExecs[e] : nodeExecs[e][n].status # "failed"

\* C1: for a linear chain start -> ... -> end with 'always'/'success' edges,
\* when every step runner reports success (no node execution is failed),
\* start_execution ends with the execution completed and every node execution
\* of the run completed.
C1_LinearChainCompletes ==
    \A e \in Created :
        (LinearChain /\ Finished(e) /\ NoNodeFailed(e)) =>
            /\ exe[e].status = "completed"
            /\ \A n \in nodes : nodeExecs[e][n].status = "completed"

C1_Witness ==
    \E e \in Created :
        /\ LinearChain /\ Finished(e) /\ LastNode >= 3
        /\ \E ed \in edges : ed.condition_type = "success"
        /\ \E ed \in edges : ed.condition_type = "always"
        /\ exe[e].status = "completed"
        /\ \A n \in nodes : runs[e][n] = 1

\* C2 (final state): in a linear chain whose node k hard-failed, the
\* execution ends failed and every node after k is still pending.
C2_FailureStopsChain ==
    \A e \in Created : \A k \in nodes :
        (LinearChain /\ Finished(e) /\ nodeExecs[e][k].status = "failed") =>
            /\ exe[e].status = "failed"
            /\ \A n \in nodes : n > k => nodeExecs[e][n].status = "pending"

\* C2 (the failing step): the step in which a node execution becomes failed
\* marks the execution failed and schedules and executes no other node.
C2_FailingStep ==
    \A e \in Created : \A n \in DOMAIN nodeExecs[e] :
        (nodeExecs[e][n].status # "failed" /\ nodeExecs'[e][n].status = "failed") =>
            /\ exe'[e].status = "failed"
            /\ stack'[e] = stack[e]
            /\ \A m \in DOMAIN nodeExecs[e] \ {n} : nodeExecs'[e][m] = nodeExecs[e][m]

FanOutJoin(a, b, j) ==
    /\ a # b
    /\ nodeType[1] = "start"
    /\ nodeType[j] = "end"
    /\ [source |-> 1, target |-> a, condition_type |-> "always"] \in edges
    /\ [source |-> 1, target |-> b, condition_type |-> "always"] \in edges
    /\ \E c \in {"always", "success"} :
          [source |-> a, target |-> j, condition_type |-> c] \in edges
    /\ \E c \in {"always", "success"} :
          [source |-> b, target |-> j, condition_type |-> c] \in edges

\* C3: in a fan-out start -> {A, B} -> end the execution is never completed
\* while A's or B's node execution is still pending or running.
C3_FanOutBothBeforeTerminal ==
    \A e \in Created : \A a, b, j \in nodes :
        (FanOutJoin(a, b, j) /\ exe[e].status = "completed") =>
            /\ nodeExecs[e][a].status \notin {"pending", "running"}
            /\ nodeExecs[e][b].status \notin {"pending", "running"}

\* Some completed node of the run fanned out into several branches.
FannedOut(e) ==
    \E m \in DOMAIN nodeExecs[e] :
        /\ nodeExecs[e][m].status = "completed"
        /\ Cardinality(GetNextNodes(edges, nodeExecs[e], m)) >= 2

\* C4: when a node fans out and a branch ends on a hard node failure, the
\* final status of the execution is failed.
C4_AnyBranchFailureFails ==
    \A e \in Created :
        ( /\ Finished(e)
          /\ FannedOut(e)
          /\ \E n \in DOMAIN nodeExecs[e] : nodeExecs[e][n].status = "failed" )
        => exe[e].status = "failed"

\* C5: within one execution the step runner of every node is invoked at most
\* once, also for a join node reached by two fan-out branches.
C5_NodeRunsAtMostOnce ==
    \A e \in Created : \A n \in Node : runs[e][n] <= 1

\* C6: once an execution is completed, failed or cancelled, no later step
\* changes its status, completed_at or duration_seconds.
C6_TerminalStep ==
    \A e \in Created :
        exe[e].status \in Terminal =>
            /\ exe'[e].status = exe[e].status
            /\ exe'[e].completed_at = exe[e].completed_at
            /\ exe'[e].duration_seconds = exe[e].duration_seconds

C6_TerminalIsFrozen == [][C6_TerminalStep]_vars

\* C7: once the traversal has reached a node whose NodeType requires a user
\* action, and as long as no approval decision is recorded, the node
\* execution is waiting_approval and the execution is paused.
C7_ApprovalNodePauses ==
    \A e \in Created : \A n \in DOMAIN nodeExecs[e] :
        ( /\ RequiresUserAction(nodeType[n])
          /\ nodeExecs[e][n].status \notin {"pending", "running"}
          /\ nodeExecs[e][n].approved_by = Null )
        => /\ nodeExecs[e][n].status = "waiting_approval"
           /\ exe[e].status = "paused"

\* C8: the traversal goes down the approval_yes edge of an approval node only
\* by an approval decision, which records the approver on the node execution.
C8_ApprovalRecordsApprover ==
    \A e \in Created : \A ed \in edges :
        ( /\ RequiresUserAction(nodeType[ed.source])
          /\ ed.condition_type = "approval_yes"
          /\ \A x \in edges : x.target = ed.target => x = ed
          /\ nodeExecs[e][ed.target].status # "pending" )
        => nodeExecs[e][ed.source].approved_by # Null


\* The step is a cancel_execution that passed its status check: it appended
\* the execution_cancelled audit entry of the execution.
CancelStep(e) ==
    /\ Len(audit') = Len(audit) + 1
    /\ audit'[Len(audit')] = AuditEntry("execution_cancelled", e)

C9_CancelPost(e) ==
    /\ exe'[e].status = "cancelled"
    /\ \A n \in DOMAIN nodeExecs[e] :
          nodeExecs'[e][n].status =
              IF nodeExecs[e][n].status \in {"running", "waiting_approval"}
              THEN "cancelled" ELSE nodeExecs[e][n].status

\* C9: cancel_execution on a queued, running or paused execution sets it to
\* cancelled and marks every node execution that is running or
\* waiting_approval as cancelled, leaving the other node executions as they
\* are.
C9_CancelMarksInFlightNodes ==
    [][\A e \in Created : CancelStep(e) => C9_CancelPost(e)]_vars

StatusOf(e) == IF e \in Created THEN exe[e].status ELSE "none"

\* cancel_execution has just cancelled the execution, which it found running,
\* while the thread of start_execution is inside start_execution.
CancelledWhileRunning(e) ==
    /\ e \in Created
    /\ pc[e] = "entered"
    /\ mem[e].status = "cancelled"
    /\ exe[e].status = "cancelled"

\* C10: once cancel_execution has cancelled a running execution, the
\* execution never afterwards becomes completed, also when its traversal is
\* still in progress in another thread.
C10_CancelledNeverCompleted ==
    \A e \in ExecIds :
        [](CancelledWhileRunning(e) => [](StatusOf(e) # "completed"))

\* C11 (the create step): the step that creates an execution leaves it queued
\* with one pending node execution for every node of the workflow.
C11_CreateStep ==
    \A e \in ExecIds :
        (e \notin Created /\ e \in DOMAIN exe') =>
            /\ exe'[e].status = "queued"
            /\ DOMAIN nodeExecs'[e] = nodes
            /\ \A n \in nodes : nodeExecs'[e][n] = NewNodeExecution
            /\ \A n \in nodes : nodeExecs'[e][n].status = "pending"

\* C11 (every state): the node executions of an execution are keyed by the
\* nodes of the workflow, one for each node and none besides.
C11_OnePerNode ==
    \A e \in Created : e \in DOMAIN nodeExecs /\ DOMAIN nodeExecs[e] = nodes

C12_ReadersSeeWhole ==
    LET seen == Committed(txn, Ledger) IN
    \A e \in DOMAIN seen.exe :
        /\ e \in DOMAIN seen.nodeExecs
        /\ DOMAIN seen.nodeExecs[e] = nodes
        /\ \E i \in 1..Len(seen.audit) :
              seen.audit[i] = AuditEntry("execution_started", e)

\* C12 (the end of create_execution): either the execution is there with all
\* its node executions, or the error is raised and nothing of it is there.
C12_CreateEnds ==
    \A e \in ExecIds :
        (pc[e] = "creating" /\ pc'[e] = "idle") =>
            IF e \in DOMAIN exe'
            THEN /\ DOMAIN nodeExecs'[e] = nodes
                 /\ response' = response
            ELSE /\ e \notin DOMAIN nodeExecs'
                 /\ \A i \in 1..Len(audit') : audit'[i].workflow_execution # e
                 /\ response' = Response("execute", 500, InternalErrorMessage)

StartedNonQueued(e) == pc[e] = "entered" /\ exe[e].status # "queued"

\* C13: start_execution on an execution that is not queued is a no-op: it
\* leaves the execution, its node executions, the workflow counters and the
\* audit log unchanged (and runs no node).
C13_StartNonQueuedIsNoOp ==
    [][ \A e \in Created :
          StartedNonQueued(e) =>
              /\ exe'[e] = exe[e]
              /\ nodeExecs'[e] = nodeExecs[e]
              /\ runs'[e] = runs[e]
              /\ wf' = wf
              /\ audit' = audit ]_vars

\* start_execution returns without having begun the traversal.
StartFails(e) == pc[e] = "entered" /\ pc'[e] = "idle"

\* C14 (the failing call): a start_execution that cannot run the graph saves
\* the execution as failed with an error message and completed_at, and
\* executes no node.
C14_StartFailsStep ==
    \A e \in Created :
        StartFails(e) =>
            /\ exe'[e].status = "failed"
            /\ exe'[e].error_message # ""
            /\ exe'[e].completed_at # Null
            /\ nodeExecs'[e] = nodeExecs[e]
            /\ \A n \in Node : runs'[e][n] = 0

\* C14 (final state): after start_execution on a workflow without start node
\* the execution is failed, not queued or running, and no node was executed.
C14_NoStartNodeFails ==
    \A e \in Created :
        (Finished(e) /\ StartNodes = {}) =>
            /\ exe[e].status = "failed"
            /\ exe[e].error_message # ""
            /\ exe[e].completed_at # Null
            /\ \A n \in nodes : nodeExecs[e][n].status = "pending"
            /\ \A n \in Node : runs[e][n] = 0

\* C14: when start_execution cannot run the graph (no start node, or an
\* internal error) the execution ends failed with a non-empty error_message
\* and completed_at set, no node is executed, and the execution is not left
\* queued or running.
C14_StartFailureRecorded == [](C14_NoStartNodeFails) /\ [][C14_StartFailsStep]_vars

C14_Witness ==
    \E e \in Created :
        /\ Finished(e)
        /\ StartNodes = {}
        /\ Cardinality(nodes) >= 3
        /\ exe[e].status = "failed"
        /\ exe[e].error_message = NoStartNodeMessage

\* C15 (creation): the step that creates an execution is taken on a workflow
\* that is active.
C15_CreatedOnlyWhenActive ==
    \A e \in ExecIds :
        (e \notin DOMAIN exe /\ e \in DOMAIN exe') => wfStatus = "active"

\* C15 (refusal): an execute request on a workflow that is not active is
\* answered with an error and creates no execution, node execution or audit
\* entry.
C15_RefusedWhenNotActive ==
    (wfStatus # "active" /\ response'.view = "execute") =>
        /\ response'.status = 400
        /\ response'.error # ""
        /\ exe' = exe
        /\ nodeExecs' = nodeExecs
        /\ audit' = audit

C16_ActiveHasStartAndEnd ==
    wfStatus = "active" =>
        /\ HasNodeOfType(nodes, nodeType, "start")
        /\ HasNodeOfType(nodes, nodeType, "end")

\* C16 (the request): activate on a workflow without start node or without
\* end node fails and leaves the status unchanged; otherwise it sets the
\* status to active.
C16_ActivateStep ==
    (response'.view = "activate" /\ wfStatus # "deleted") =>
        IF /\ HasNodeOfType(nodes, nodeType, "start")
           /\ HasNodeOfType(nodes, nodeType, "end")
        THEN wfStatus' = "active" /\ response'.status = 200
        ELSE wfStatus' = wfStatus /\ response'.status = 400 /\ response'.error # ""

\* C16: activate fails and leaves the status unchanged on a workflow that has
\* no start node or no end node; it sets the status to active only when at
\* least one start node and one end node exist.
C16_ActivationGuard == [](C16_ActiveHasStartAndEnd) /\ [][C16_ActivateStep]_vars

C16_Witness ==
    /\ HasNodeOfType(nodes, nodeType, "start")
    /\ ~HasNodeOfType(nodes, nodeType, "end")
    /\ wfStatus = "inactive"
    /\ response = Response("activate", 400, "Workflow must have at least one end node")

\* Two outgoing edges of node n can match the same outcome of n.
MatchSameOutcome(n) ==
    \E e1, e2 \in edges :
        /\ e1 # e2
        /\ e1.source = n
        /\ e2.source = n
        /\ \E status \in {"completed", "failed"} :
              /\ ShouldExecute(e1.condition_type, status)
              /\ ShouldExecute(e2.condition_type, status)

\* C17: a workflow in which a node whose type does not allow multiple outputs
\* has several outgoing edges that can match the same outcome is never
\* active: its activation is refused.
C17_NoMultipleOutputsWhenActive ==
    wfStatus = "active" =>
        \A n \in nodes : AllowsMultipleOutputs(nodeType[n]) \/ ~MatchSameOutcome(n)

\* C18: in every state an execution that is completed, failed or cancelled
\* has completed_at and duration_seconds set and current_node null.
C18_TerminalFieldsSet ==
    \A e \in Created :
        exe[e].status \in Terminal =>
            /\ exe[e].completed_at # Null
            /\ exe[e].duration_seconds # Null
            /\ exe[e].current_node = Null

\* C19: every step in which an execution becomes completed or failed appends
\* the execution_completed or execution_failed audit entry of the execution.
C19_TerminalTransitionAudited ==
    [][ \A e \in Created :
          ( /\ exe'[e].status \in {"completed", "failed"}
            /\ exe'[e].status # exe[e].status )
          => audit' = Append(audit, AuditEntry(CompletionAction(exe'[e].status), e)) ]_vars

\* C20: audit log entries are never updated or deleted: every entry of the
\* log is still there, unchanged, after every step.
C20_AuditAppendOnly ==
    [][ /\ Len(audit') >= Len(audit)
        /\ \A i \in 1..Len(audit) : audit'[i] = audit[i] ]_vars

\* The number of executions of the ledger `rows` with the status `status`.
CountWithStatus(rows, status) ==
    Cardinality({ e \in DOMAIN rows : rows[e].status = status })

\* `mean` is the mean duration of the completed executions of `rows`, 0
\* without one.
IsMeanDuration(mean, rows) ==
    LET completed == { e \in DOMAIN rows : rows[e].status = "completed" }
    IN  IF completed = {}
        THEN mean = << 0, 1 >>
        ELSE /\ mean[2] > 0
             /\ mean[1] * Cardinality(completed) =
                    mean[2] * SumDurations(rows, completed)

\* A step in which _update_workflow_stats has run.
StatsUpdated == wf'.last_executed_at # wf.last_executed_at

\* C21: after every step in which _update_workflow_stats runs,
\* total_executions is the number of executions of the workflow,
\* successful_executions the number of completed ones, failed_executions the
\* number of failed ones and average_duration_seconds the mean duration of
\* the completed ones, 0 when there is none.
C21_StatsMatchLedger ==
    [][ StatsUpdated =>
          /\ wf'.total_executions = Cardinality(DOMAIN exe')
          /\ wf'.successful_executions = CountWithStatus(exe', "completed")
          /\ wf'.failed_executions = CountWithStatus(exe', "failed")
          /\ IsMeanDuration(wf'.average_duration_seconds, exe') ]_vars

\* One execution completed and one failed, both counted, the mean being the
\* duration of the completed one.
C21_Witness ==
    /\ wf.total_executions = 2
    /\ wf.successful_executions = 1
    /\ wf.failed_executions = 1
    /\ \E e \in Created : /\ exe[e].status = "completed"
                          /\ wf.average_duration_seconds = << exe[e].duration_seconds, 1 >>
    /\ \E e \in Created : exe[e].status = "failed"

\* C23: when _update_workflow_stats runs right after the statistics were
\* computed, no execution having changed, total_executions,
\* successful_executions and failed_executions are what they were.
C23_RecomputeIdempotent ==
    [][ ( /\ StatsUpdated
          /\ wf.last_executed_at = now
          /\ exe' = exe )
        => /\ wf'.total_executions = wf.total_executions
           /\ wf'.successful_executions = wf.successful_executions
           /\ wf'.failed_executions = wf.failed_executions ]_vars

\* The statistics were recomputed twice after the last execution ended, one
\* execution being completed and the other failed.
C23_Witness ==
    /\ Created = AllExecIds
    /\ \A e \in Created : pc[e] = "idle" /\ exe[e].status \in {"completed", "failed"}
    /\ \E e \in Created : exe[e].status = "completed"
    /\ \E e \in Created : exe[e].status = "failed"
    /\ \A e \in Created : wf.last_executed_at >= exe[e].completed_at + 2
    /\ wf.total_executions = 2
    /\ wf.successful_executions = 1
    /\ wf.failed_executions = 1

\* C22: once every execution of the workflow has finished, however their
\* runs interleaved, total_executions, successful_executions and
\* failed_executions are the numbers of executions, of completed executions
\* and of failed executions of the ledger.
C22_NoLostCounterUpdate ==
    (Created # {} /\ \A e \in Created : Finished(e)) =>
        /\ wf.total_executions = Cardinality(DOMAIN exe)
        /\ wf.successful_executions = CountWithStatus(exe, "completed")
        /\ wf.failed_executions = CountWithStatus(exe, "failed")

\* A step of the thread that runs execution e.
ThreadStep(e) == << pc[e], cur[e], stack[e] >>' # << pc[e], cur[e], stack[e] >>

\* C24: with several executions of the workflow running at once, a step of
\* the run of one execution changes neither the row nor the node executions
\* of another execution, and an execution whose run has ended without a
\* failed node is completed.
C24_ExecutionsIsolated ==
    [][ \A e \in AllExecIds :
          ThreadStep(e) =>
             /\ \A o \in Created \ {e} :
                   /\ exe'[o] = exe[o]
                   /\ nodeExecs'[o] = nodeExecs[o]
             /\ (Finished(e) /\ NoNodeFailed(e))' => exe'[e].status = "completed" ]_vars

\* Both executions have ended completed, each node having run once, and the
\* runs overlapped: the execution that ended first ended later than its own
\* nodes account for, so the other one, which ended after it, was running
\* before it ended.
C24_Witness ==
    /\ Created = AllExecIds
    /\ Cardinality(nodes) = 2
    /\ \A e \in Created : /\ Finished(e)
                          /\ exe[e].status = "completed"
                          /\ \A n \in nodes : runs[e][n] = 1
    /\ \E e \in Created : \E o \in Created \ {e} :
          /\ exe[e].completed_at < exe[o].completed_at
          /\ exe[e].completed_at > exe[e].started_at + 1 + Cardinality(nodes)
          /\ exe[e].completed_at > exe[o].started_at + 1 + Cardinality(nodes)

\* A step in which save_canvas is served.
CanvasSaved ==
    /\ response'.view = "save_canvas"
    /\ threadVars' = threadVars
    /\ Created' = Created

\* C25: when the graph of the workflow is replaced between create_execution
\* and the end of the run of an execution, the node execution records the
\* execution was seeded with are what they were.
C25_GraphSnapshotAtCreation ==
    [][ CanvasSaved =>
          \A e \in Created : ~Finished(e) => nodeExecs'[e] = nodeExecs[e] ]_vars

\* C26: a change of the status of the workflow made while an execution of
\* it runs is preserved: once the run has ended, as long as deactivate is the
\* last request answered, the workflow is inactive.
C26_WorkflowChangePreserved ==
    (response.view = "deactivate" /\ \A e \in Created : Finished(e)) =>
        wfStatus = "inactive"

Edge(source, target, condition_type) ==
    [ source |-> source, target |-> target, condition_type |-> condition_type ]

\* Node d decides between a and b: its outgoing edges are a 'success' edge
\* to a and a 'failure' edge to b, which no other edge leads to.
Decides(d, a, b) ==
    /\ a # b
    /\ { ed \in edges : ed.source = d } = { Edge(d, a, "success"), Edge(d, b, "failure") }
    /\ { ed \in edges : ed.target = b } = { Edge(d, b, "failure") }

\* C27: where a node has a 'success' edge to A and a 'failure' edge to B and
\* completes, A is executed and B is not: the node execution of B is pending
\* in every state of the run, and a run that has ended without a failed node
\* has executed A and is completed.
C27_SuccessPathOnly ==
    \A e \in Created : \A d \in nodes : \A a \in nodes : \A b \in nodes :
        ( /\ Decides(d, a, b)
          /\ d \in DOMAIN nodeExecs[e]
          /\ nodeExecs[e][d].status = "completed" )
        => /\ nodeExecs[e][b].status = "pending"
           /\ runs[e][b] = 0
           /\ (Finished(e) /\ NoNodeFailed(e)) =>
                 /\ runs[e][a] > 0
                 /\ nodeExecs[e][a].status = "completed"
                 /\ exe[e].status = "completed"

\* The run start -> decision -> (success: 3, failure: 4) has ended: node 3
\* completed, node 4 pending, the execution completed.
C27_Witness ==
    \E e \in Created :
        /\ Finished(e)
        /\ nodeType[1] = "start"
        /\ Edge(1, 2, "always") \in edges
        /\ Decides(2, 3, 4)
        /\ nodeExecs[e][2].status = "completed"
        /\ nodeExecs[e][3].status = "completed"
        /\ nodeExecs[e][4].status = "pending"
        /\ exe[e].status = "completed"

\* C28: when a node fails, the targets of its 'failure' edges and of its
\* 'always' edges are executed next: in a run that has ended, every such
\* target of a failed node has been executed.
C28_FailureEdgesFollowed ==
    \A e \in Created : \A ed \in edges :
        ( /\ Finished(e)
          /\ ed.source \in DOMAIN nodeExecs[e]
          /\ nodeExecs[e][ed.source].status = "failed"
          /\ ed.condition_type \in {"failure", "always"} )
        => runs[e][ed.target] > 0

\* No other edge leads to the target of the edge.
OnlyWayIn(ed) == \A x \in edges : x.target = ed.target => x = ed

\* C29: of the approval_yes edge and the approval_no edge of an approval
\* node only the one that matches the decision is followed: their targets,
\* when nothing else leads to them, are never both executed in one run.
C29_OnlyMatchingApprovalEdge ==
    \A e \in Created : \A yes \in edges : \A no \in edges :
        ( /\ yes.source = no.source
          /\ RequiresUserAction(nodeType[yes.source])
          /\ yes.condition_type = "approval_yes"
          /\ no.condition_type = "approval_no"
          /\ yes.target # no.target
          /\ OnlyWayIn(yes)
          /\ OnlyWayIn(no) )
        => ~(runs[e][yes.target] > 0 /\ runs[e][no.target] > 0)

\* The two comparisons cannot both hold: the same field is compared with the
\* same value, once as greater and once as less or equal.
Complementary(c1, c2) ==
    /\ c1.field = c2.field
    /\ c1.value = c2.value
    /\ c1.operator = "gt"
    /\ c2.operator = "lte"

\* C30: a 'conditional' edge is followed only when its condition_config
\* holds: of two conditional edges of a node whose comparisons cannot both
\* hold, the targets, when nothing else leads to them, are never both
\* executed in one run.
C30_ConditionalEdgesEvaluated ==
    \A e \in Created : \A x \in edges : \A y \in edges :
        ( /\ x.source = y.source
          /\ x.condition_type = "conditional"
          /\ y.condition_type = "conditional"
          /\ Complementary(x.condition_config, y.condition_config)
          /\ x.target # y.target
          /\ OnlyWayIn(x)
          /\ OnlyWayIn(y) )
        => ~(runs[e][x.target] > 0 /\ runs[e][y.target] > 0)

C34_NodeFailureRecorded ==
    \A e \in Created :
        ( /\ Finished(e)
          /\ exe[e].status = "failed"
          /\ \E n \in DOMAIN nodeExecs[e] : nodeExecs[e][n].status = "failed" )
        => /\ exe[e].error_message # ""
           /\ exe[e].completed_at # Null

\* The nodes reached from the nodes S through at most k more edges.
RECURSIVE ReachedFrom(_, _)
ReachedFrom(S, k) ==
    IF k = 0 THEN S
    ELSE ReachedFrom(S \cup { ed.target : ed \in { x \in edges : x.source \in S } }, k - 1)

\* The first node of type start, if the workflow has one.
FirstStartNode ==
    { n \in nodes : /\ nodeType[n] = "start"
                    /\ \A m \in nodes : nodeType[m] = "start" => n <= m }

\* A node no path of edges leads to from the start node of the run.
Orphan(n) == n \notin ReachedFrom(FirstStartNode, Cardinality(nodes))

C31_FailedOnlyAfterRetries ==
    \A e \in Created : \A n \in DOMAIN nodeExecs[e] :
        nodeExecs[e][n].status = "failed" => runs[e][n] > RetryCount(n)

\* C35: a failing audit write leaves the calling operation's state changes
\* intact: every execution that create_execution has returned has its row.
C35_AuditFailureKeepsChanges ==
    \A e \in DOMAIN mem : pc[e] = "idle" => e \in Created

\* C36: no operation moves a workflow that has no start node or no end node
\* into status active.
C36_ActiveOnlyThroughGuard ==
    [][ (wfStatus # "active" /\ wfStatus' = "active") =>
            /\ HasNodeOfType(nodes, nodeType, "start")
            /\ HasNodeOfType(nodes, nodeType, "end") ]_vars

\* C37: in every state, executions being created and completed while the
\* statistics are updated included, successful_executions + failed_executions
\* is at most total_executions.
C37_OutcomesWithinTotal ==
    wf.successful_executions + wf.failed_executions <= wf.total_executions

\* The workflow graph has a cycle: some node is reached from itself.
RECURSIVE ReachableFrom(_, _)
ReachableFrom(S, k) ==
    IF k = 0 THEN S
    ELSE ReachableFrom(S \cup { ed.target : ed \in { x \in edges : x.source \in S } }, k - 1)

HasCycle ==
    \E n \in nodes :
        n \in ReachableFrom({ ed.target : ed \in { x \in edges : x.source = n } },
                            Cardinality(nodes))

\* C32: on every workflow graph, graphs with a cycle included, an execution
\* that start_execution was called on eventually has a terminal status with
\* start_execution returned; none stays running forever.
C32_EventuallyTerminal ==
    \A e \in ExecIds :
        (starts[e] > 0) ~> (pc[e] = "idle" /\ e \in Created /\ exe[e].status \in Terminal)

\* An execution on a graph with a cycle went round until RecursionError and
\* has ended.
C32_Witness ==
    /\ HasCycle
    /\ \E e \in Created :
          /\ Finished(e)
          /\ exe[e].status \in Terminal
          /\ \E n \in DOMAIN nodeExecs[e] :
                /\ nodeExecs[e][n].error_message = RecursionMessage
                /\ runs[e][n] > 1

====
